---- MODULE Spec2Model ----
(***************************************************************************)
(* State-machine model of src/main.py: the TrackPlayer playback engine     *)
(* (audio callback, play/stop/pause/resume/set_volume/seek) and the        *)
(* MusicPlayer sequencing logic (play_track, on_track_finished, loop       *)
(* modes, volume, rescans).                                                *)
(*                                                                         *)
(* Execution contexts:                                                     *)
(*   caller 0        the Qt main thread (UI handlers); in SpecEngine the   *)
(*                   single client thread that drives one TrackPlayer      *)
(*   caller e (>0)   the daemon thread started by engine e's callback to   *)
(*                   run finished_callback (on_track_finished)             *)
(*   plPc[e]         the daemon thread running Track.play of engine e      *)
(*   cbPc[e]         the audio thread running engine e's stream callback   *)
(* Volume is held in hundredths (1.0 = 100); seconds are held in           *)
(* milliseconds; arithmetic is exact (float rounding is not modelled).     *)
(***************************************************************************)
EXTENDS Integers, Sequences, FiniteSets, TLC

\* ---------------------------------------------------------------- bounds
MaxEngines == 2      \* TrackPlayer objects ever constructed
MaxUiOps == 3        \* handlers the main thread runs
MaxClientOps == 4    \* TrackPlayer calls the client makes in SpecEngine

\* ------------------------------------------------------------- constants
BlockSize == 2048
DefaultVolume == 100
InitialVolume == 100

Engines == 1..MaxEngines
Callers == 0..MaxEngines
NoTrack == 0
Paths == {"A", "B", "C"}
NoPath == "-"

\* Audio files on disk: frame count and sample rate of each path.
LenOf(p) == CASE p = "A" -> 3000 [] p = "B" -> 1000 [] OTHER -> 4096
SampleRateOf(p) == CASE p = "A" -> 44100 [] p = "B" -> 8000 [] OTHER -> 48000

\* Results MusicPlayer.scan_music can return (discovery order is stable).
ScanResults == { <<"A", "B", "C">>, <<"A", "C">>, <<>> }
LoopModes == {"none", "list", "song"}
\* Values the volume slider (range 0..100) can emit.
SliderVolumes == {40, 100}
\* Values the progress slider (range 0..1000) can emit.
SliderSeeks == {500, 1000}
\* Arguments the client of a TrackPlayer passes in SpecEngine.
VolumeArgs == {-20, 0, 40, 100, 130}
SeekMsArgs == {-5, 0, 30, 68, 500}

VARIABLES
  \* ---- TrackPlayer objects
  alloc,          \* number of TrackPlayer objects constructed so far
  path,           \* path[e]: file of engine e
  stream,         \* self.stream: "none" | "created" | "started" | "stopped"
  lock,           \* self.lock holder: "free" | "cb" | "ctl"
  volume,         \* self.volume, in hundredths
  paused,         \* self.paused
  cf,             \* self.current_frame
  pos,            \* self.sf.tell(): reader position
  fcb,            \* self.finished_callback is set
  cbPc,           \* callback invocation: "idle" | "checked" | "read"
  cbN,            \* len(data) of the invocation in progress
  plPc,           \* Track.play thread: "idle" | "create" | "start" | "done" | "dead" | "failed"
  \* ---- MusicPlayer
  current_track,  \* engine id or NoTrack
  current_volume,
  loop_mode,
  track_list,
  \* ---- callers
  pc,             \* pc[c]: position of caller c
  ret,            \* pc to continue at after a nested stop()
  old,            \* engine being stopped
  tgt,            \* path argument of play_track / on_track_finished
  new,            \* engine constructed by play_track
  arg,            \* integer argument (volume value, frame, index)
  ms,             \* seconds argument of seek, in milliseconds
  mode,           \* branch on_track_finished has taken
  raised,         \* raised[c]: c's handler ended by an uncaught exception
  uiOps,          \* handlers started by the main thread
  \* ---- history (observation only)
  eos,            \* eos[e]: short reads seen by engine e's callback
  notif,          \* notif[e]: completion threads scheduled by engine e
  stopRet,        \* stopRet[e]: some stop() of engine e has returned
  volArg,         \* volArg[e]: argument of the last set_volume that returned
  seekMs,         \* seekMs[e]: argument (ms) of the last seek that returned
  seekCbs,        \* seekCbs[e]: callback reads since that seek returned
  stopSnap,       \* engine fields when the client entered stop()
  seen,           \* seen[c]: track_list values read by on_track_finished
  startList       \* startList[e]: track_list when engine e was constructed

engVars == <<alloc, path, stream, lock, volume, paused, cf, pos, fcb, cbPc, cbN, plPc>>
mpVars == <<current_track, current_volume, loop_mode, track_list>>
callVars == <<pc, ret, old, tgt, new, arg, ms, mode, raised, uiOps>>
histVars == <<eos, notif, stopRet, volArg, seekMs, seekCbs, stopSnap, seen, startList>>
vars == <<engVars, mpVars, callVars, histVars>>

\* volArg, seekMs and ms hold {} (no value) or {v}
NoArg == {}
NoSnap == <<>>

\* ------------------------------------------------------------ arithmetic
Min(a, b) == IF a < b THEN a ELSE b
Max(a, b) == IF a > b THEN a ELSE b
\* np.clip(x, lo, hi) = minimum(maximum(x, lo), hi)
NpClip(x, lo, hi) == Min(Max(x, lo), hi)
\* int(): truncation toward zero of n / d (d > 0)
Trunc(n, d) == IF n >= 0 THEN n \div d ELSE -((-n) \div d)
Abs(x) == IF x < 0 THEN -x ELSE x

\* Variant of VolumeOf: the value is scaled but not clipped.
VolumeOfUnclipped(value) == value

\* TrackPlayer.set_volume: np.clip(value / 100, 0.0, 1.0), in hundredths
VolumeOf(value) == NpClip(value, 0, 100)
\* Variant of SeekFrame: the frame is not clipped to the file.
SeekFrameUnclipped(msec, p) == Trunc(msec * SampleRateOf(p), 1000)

\* TrackPlayer.seek: frame = int(seconds * samplerate), clipped to [0, len]
SeekFrame(msec, p) == NpClip(Trunc(msec * SampleRateOf(p), 1000), 0, LenOf(p))
\* MusicPlayer.seek_track: target_sec = value / 1000 * duration_seconds,
\* then TrackPlayer.seek(target_sec); duration_seconds = len / samplerate
SliderFrame(value, p) == NpClip(Trunc(value * LenOf(p), 1000), 0, LenOf(p))
\* list.index(x): first index (1-based here) or 0 when absent (ValueError)
IndexOf(s, x) == IF \E i \in 1..Len(s) : s[i] = x
                 THEN CHOOSE i \in 1..Len(s) : s[i] = x /\ \A j \in 1..(i-1) : s[j] # x
                 ELSE 0

\* ------------------------------------------------------------------ Init
\* TrackPlayer.__init__ field values (before any engine is constructed the
\* slots hold the same values, so that construction is a pure allocation).
EngineInit ==
  /\ stream = [e \in Engines |-> "none"]
  /\ lock = [e \in Engines |-> "free"]
  /\ volume = [e \in Engines |-> DefaultVolume]
  /\ paused = [e \in Engines |-> FALSE]
  /\ cf = [e \in Engines |-> 0]
  /\ pos = [e \in Engines |-> 0]
  /\ fcb = [e \in Engines |-> FALSE]
  /\ cbPc = [e \in Engines |-> "idle"]
  /\ cbN = [e \in Engines |-> 0]
  /\ plPc = [e \in Engines |-> "idle"]

CallInit ==
  /\ pc = [c \in Callers |-> "idle"]
  /\ ret = [c \in Callers |-> "idle"]
  /\ old = [c \in Callers |-> NoTrack]
  /\ tgt = [c \in Callers |-> NoPath]
  /\ new = [c \in Callers |-> NoTrack]
  /\ arg = [c \in Callers |-> 0]
  /\ ms = [c \in Callers |-> NoArg]
  /\ mode = [c \in Callers |-> "-"]
  /\ raised = [c \in Callers |-> FALSE]
  /\ uiOps = 0

HistInit ==
  /\ eos = [e \in Engines |-> 0]
  /\ notif = [e \in Engines |-> 0]
  /\ stopRet = [e \in Engines |-> FALSE]
  /\ volArg = [e \in Engines |-> NoArg]
  /\ seekMs = [e \in Engines |-> NoArg]
  /\ seekCbs = [e \in Engines |-> 0]
  /\ stopSnap = NoSnap
  /\ seen = [c \in Callers |-> <<>>]
  /\ startList = [e \in Engines |-> <<>>]

\* MusicPlayer.__init__: no track, volume 100, loop mode "none", first scan.
Init ==
  /\ alloc = 0
  /\ path = [e \in Engines |-> NoPath]
  /\ EngineInit
  /\ current_track = NoTrack
  /\ current_volume = InitialVolume
  /\ loop_mode = "none"
  /\ track_list \in ScanResults
  /\ CallInit
  /\ HistInit

\* ------------------------------------------------ TrackPlayer.callback
\* `if self.paused: outdata.fill(0); return`, else go on to take the lock.
CallbackEnter(e) ==
  /\ stream[e] = "started"
  /\ cbPc[e] = "idle"
  /\ cbPc' = [cbPc EXCEPT ![e] = IF paused[e] THEN "idle" ELSE "checked"]
  /\ UNCHANGED <<alloc, path, stream, lock, volume, paused, cf, pos, fcb, cbN, plPc>>
  /\ UNCHANGED <<mpVars, callVars, histVars>>

\* `with self.lock: data = self.sf.read(frames, ...)`
CallbackRead(e) ==
  /\ cbPc[e] = "checked"
  /\ lock[e] = "free"
  /\ lock' = [lock EXCEPT ![e] = "cb"]
  /\ LET n == Min(BlockSize, LenOf(path[e]) - pos[e]) IN
       /\ cbN' = [cbN EXCEPT ![e] = n]
       /\ pos' = [pos EXCEPT ![e] = pos[e] + n]
  /\ cbPc' = [cbPc EXCEPT ![e] = "read"]
  /\ seekCbs' = [seekCbs EXCEPT ![e] = IF seekMs[e] = NoArg THEN 0 ELSE Min(2, seekCbs[e] + 1)]
  /\ UNCHANGED <<alloc, path, stream, volume, paused, cf, fcb, plPc>>
  /\ UNCHANGED <<mpVars, callVars>>
  /\ UNCHANGED <<eos, notif, stopRet, volArg, seekMs, stopSnap, seen, startList>>

\* `data = self.sf.read(...)` raises (corrupt data mid-stream): the `with`
\* block releases the lock and the exception leaves the callback; the
\* stream is aborted (the callback's error result), finished_callback is
\* not consulted.
CallbackReadError(e) ==
  /\ cbPc[e] = "checked"
  /\ lock[e] = "free"
  /\ stream' = [stream EXCEPT ![e] = "stopped"]
  /\ cbPc' = [cbPc EXCEPT ![e] = "idle"]
  /\ UNCHANGED <<alloc, path, lock, volume, paused, cf, pos, fcb, cbN, plPc>>
  /\ UNCHANGED <<mpVars, callVars, histVars>>

\* len(data) == frames: `outdata[:] = data * self.volume`,
\* `self.current_frame = self.sf.tell()`, lock released.
CallbackFull(e) ==
  /\ cbPc[e] = "read"
  /\ cbN[e] = BlockSize
  /\ cf' = [cf EXCEPT ![e] = pos[e]]
  /\ lock' = [lock EXCEPT ![e] = "free"]
  /\ cbPc' = [cbPc EXCEPT ![e] = "idle"]
  /\ UNCHANGED <<alloc, path, stream, volume, paused, pos, fcb, cbN, plPc>>
  /\ UNCHANGED <<mpVars, callVars, histVars>>

\* Variant of CallbackShort: the short read ends the stream without
\* starting the completion thread.
CallbackShortNoNotify(e) ==
  /\ cbPc[e] = "read"
  /\ cbN[e] < BlockSize
  /\ eos' = [eos EXCEPT ![e] = eos[e] + 1]
  /\ lock' = [lock EXCEPT ![e] = "free"]
  /\ stream' = [stream EXCEPT ![e] = "stopped"]
  /\ cbPc' = [cbPc EXCEPT ![e] = "idle"]
  /\ UNCHANGED <<alloc, path, volume, paused, cf, pos, fcb, cbN, plPc>>
  /\ UNCHANGED <<mpVars, callVars>>
  /\ UNCHANGED <<notif, stopRet, volArg, seekMs, seekCbs, stopSnap, seen, startList>>

\* len(data) < frames: scaled partial block, the completion thread is
\* started when finished_callback is set, CallbackStop ends the stream;
\* current_frame is not assigned on this path.
CallbackShort(e) ==
  /\ cbPc[e] = "read"
  /\ cbN[e] < BlockSize
  /\ eos' = [eos EXCEPT ![e] = eos[e] + 1]
  /\ notif' = [notif EXCEPT ![e] = IF fcb[e] THEN notif[e] + 1 ELSE notif[e]]
  /\ lock' = [lock EXCEPT ![e] = "free"]
  /\ stream' = [stream EXCEPT ![e] = "stopped"]
  /\ cbPc' = [cbPc EXCEPT ![e] = "idle"]
  /\ UNCHANGED <<alloc, path, volume, paused, cf, pos, fcb, cbN, plPc>>
  /\ UNCHANGED <<mpVars, callVars>>
  /\ UNCHANGED <<stopRet, volArg, seekMs, seekCbs, stopSnap, seen, startList>>

\* ------------------------------------------------- TrackPlayer.play
\* `self.stream = sd.OutputStream(...)`
PlayCreate(e) ==
  /\ plPc[e] = "create"
  /\ stream' = [stream EXCEPT ![e] = "created"]
  /\ plPc' = [plPc EXCEPT ![e] = "start"]
  /\ UNCHANGED <<alloc, path, lock, volume, paused, cf, pos, fcb, cbPc, cbN>>
  /\ UNCHANGED <<mpVars, callVars, histVars>>

\* `self.stream.start()`: self.stream is read again; a stop() that ran in
\* between has set it to None and the thread dies with AttributeError.
PlayStart(e) ==
  /\ plPc[e] = "start"
  /\ IF stream[e] = "none"
       THEN /\ plPc' = [plPc EXCEPT ![e] = "dead"]
            /\ UNCHANGED stream
       ELSE /\ stream' = [stream EXCEPT ![e] = "started"]
            /\ plPc' = [plPc EXCEPT ![e] = "done"]
  /\ UNCHANGED <<alloc, path, lock, volume, paused, cf, pos, fcb, cbPc, cbN>>
  /\ UNCHANGED <<mpVars, callVars, histVars>>

\* `sd.OutputStream(...)` or `self.stream.start()` raises (the device
\* cannot be opened or started): the exception ends the play thread.
PlayFail(e) ==
  /\ plPc[e] \in {"create", "start"}
  /\ plPc' = [plPc EXCEPT ![e] = "failed"]
  /\ UNCHANGED <<alloc, path, stream, lock, volume, paused, cf, pos, fcb, cbPc, cbN>>
  /\ UNCHANGED <<mpVars, callVars, histVars>>

\* ------------------------------------------------- TrackPlayer.stop
\* Where caller c continues when its handler ends (normally or by an
\* uncaught exception): the main thread returns to the event loop, a
\* completion thread terminates.
EndPc(c) == IF c = 0 THEN "idle" ELSE "done"

\* Variant of StopCheck: stop() without the `if self.stream:` test.
StopCheckNoGuard(c) ==
  /\ pc[c] = "S1"
  /\ pc' = [pc EXCEPT ![c] = "S2"]
  /\ UNCHANGED <<engVars, mpVars, histVars>>
  /\ UNCHANGED <<ret, old, tgt, new, arg, ms, mode, raised, uiOps>>

\* `if self.stream:`
StopCheck(c) ==
  /\ pc[c] = "S1"
  /\ pc' = [pc EXCEPT ![c] = IF stream[old[c]] = "none" THEN "S4" ELSE "S2"]
  /\ UNCHANGED <<engVars, mpVars, histVars>>
  /\ UNCHANGED <<ret, old, tgt, new, arg, ms, mode, raised, uiOps>>

\* `self.stream.stop()`: returns once no callback invocation is running and
\* none will be made; self.stream is read again (None: AttributeError).
StopStream(c) ==
  /\ pc[c] = "S2"
  /\ raised' = [raised EXCEPT ![c] = (stream[old[c]] = "none")]
  /\ IF stream[old[c]] = "none"
       THEN /\ pc' = [pc EXCEPT ![c] = EndPc(c)]
            /\ UNCHANGED stream
       ELSE /\ cbPc[old[c]] = "idle"
            /\ stream' = [stream EXCEPT ![old[c]] = "stopped"]
            /\ pc' = [pc EXCEPT ![c] = "S3"]
  /\ UNCHANGED <<alloc, path, lock, volume, paused, cf, pos, fcb, cbPc, cbN, plPc>>
  /\ UNCHANGED <<mpVars, histVars>>
  /\ UNCHANGED <<ret, old, tgt, new, arg, ms, mode, uiOps>>

\* `self.stream.close(); self.stream = None` (closing a stream that was
\* started meanwhile ends it as well).
StopClose(c) ==
  /\ pc[c] = "S3"
  /\ raised' = [raised EXCEPT ![c] = (stream[old[c]] = "none")]
  /\ IF stream[old[c]] = "none"
       THEN /\ pc' = [pc EXCEPT ![c] = EndPc(c)]
            /\ UNCHANGED stream
       ELSE /\ cbPc[old[c]] = "idle"
            /\ stream' = [stream EXCEPT ![old[c]] = "none"]
            /\ pc' = [pc EXCEPT ![c] = "S4"]
  /\ UNCHANGED <<alloc, path, lock, volume, paused, cf, pos, fcb, cbPc, cbN, plPc>>
  /\ UNCHANGED <<mpVars, histVars>>
  /\ UNCHANGED <<ret, old, tgt, new, arg, ms, mode, uiOps>>

\* `self.sf.seek(0)` (the lock is not taken)
StopRewind(c) ==
  /\ pc[c] = "S4"
  /\ pos' = [pos EXCEPT ![old[c]] = 0]
  /\ seekMs' = [seekMs EXCEPT ![old[c]] = NoArg]
  /\ pc' = [pc EXCEPT ![c] = "S5"]
  /\ UNCHANGED <<alloc, path, stream, lock, volume, paused, cf, fcb, cbPc, cbN, plPc>>
  /\ UNCHANGED <<mpVars>>
  /\ UNCHANGED <<eos, notif, stopRet, volArg, seekCbs, stopSnap, seen, startList>>
  /\ UNCHANGED <<ret, old, tgt, new, arg, ms, mode, raised, uiOps>>

\* `self.current_frame = 0`, then stop() returns to its caller
StopReset(c) ==
  /\ pc[c] = "S5"
  /\ cf' = [cf EXCEPT ![old[c]] = 0]
  /\ stopRet' = [stopRet EXCEPT ![old[c]] = TRUE]
  /\ pc' = [pc EXCEPT ![c] = ret[c]]
  /\ UNCHANGED <<alloc, path, stream, lock, volume, paused, pos, fcb, cbPc, cbN, plPc>>
  /\ UNCHANGED <<mpVars>>
  /\ UNCHANGED <<eos, notif, volArg, seekMs, seekCbs, stopSnap, seen, startList>>
  /\ UNCHANGED <<ret, old, tgt, new, arg, ms, mode, raised, uiOps>>

\* --------------------------------------------- TrackPlayer.set_volume
\* Variant of SetVolume: the volume is assigned without taking the lock.
SetVolumeNoLock(c) ==
  /\ pc[c] = "V2"
  /\ volume' = [volume EXCEPT ![old[c]] = VolumeOf(arg[c])]
  /\ volArg' = [volArg EXCEPT ![old[c]] = {arg[c]}]
  /\ pc' = [pc EXCEPT ![c] = EndPc(c)]
  /\ UNCHANGED <<alloc, path, stream, lock, paused, cf, pos, fcb, cbPc, cbN, plPc>>
  /\ UNCHANGED <<mpVars>>
  /\ UNCHANGED <<eos, notif, stopRet, seekMs, seekCbs, stopSnap, seen, startList>>
  /\ UNCHANGED <<ret, old, tgt, new, arg, ms, mode, raised, uiOps>>

\* `with self.lock: self.volume = np.clip(value / 100, 0.0, 1.0)`;
\* arg[c] is the value, old[c] the engine.
SetVolume(c) ==
  /\ pc[c] = "V2"
  /\ lock[old[c]] = "free"
  /\ volume' = [volume EXCEPT ![old[c]] = VolumeOf(arg[c])]
  /\ volArg' = [volArg EXCEPT ![old[c]] = {arg[c]}]
  /\ pc' = [pc EXCEPT ![c] = EndPc(c)]
  /\ UNCHANGED <<alloc, path, stream, lock, paused, cf, pos, fcb, cbPc, cbN, plPc>>
  /\ UNCHANGED <<mpVars>>
  /\ UNCHANGED <<eos, notif, stopRet, seekMs, seekCbs, stopSnap, seen, startList>>
  /\ UNCHANGED <<ret, old, tgt, new, arg, ms, mode, raised, uiOps>>

\* --------------------------------------------------- TrackPlayer.seek
\* `with self.lock: self.sf.seek(frame)`; arg[c] is the clipped frame.
SeekReader(c) ==
  /\ pc[c] = "K2"
  /\ lock[old[c]] = "free"
  /\ lock' = [lock EXCEPT ![old[c]] = "ctl"]
  /\ pos' = [pos EXCEPT ![old[c]] = arg[c]]
  /\ pc' = [pc EXCEPT ![c] = "K3"]
  /\ UNCHANGED <<alloc, path, stream, volume, paused, cf, fcb, cbPc, cbN, plPc>>
  /\ UNCHANGED <<mpVars, histVars>>
  /\ UNCHANGED <<ret, old, tgt, new, arg, ms, mode, raised, uiOps>>

\* `self.current_frame = self.sf.tell()`, lock released, seek returns;
\* ms[c] is the seconds argument (in ms) for the history record.
SeekCursor(c) ==
  /\ pc[c] = "K3"
  /\ cf' = [cf EXCEPT ![old[c]] = pos[old[c]]]
  /\ lock' = [lock EXCEPT ![old[c]] = "free"]
  /\ seekMs' = [seekMs EXCEPT ![old[c]] = ms[c]]
  /\ seekCbs' = [seekCbs EXCEPT ![old[c]] = 0]
  /\ pc' = [pc EXCEPT ![c] = EndPc(c)]
  /\ UNCHANGED <<alloc, path, stream, volume, paused, pos, fcb, cbPc, cbN, plPc>>
  /\ UNCHANGED <<mpVars>>
  /\ UNCHANGED <<eos, notif, stopRet, volArg, stopSnap, seen, startList>>
  /\ UNCHANGED <<ret, old, tgt, new, arg, ms, mode, raised, uiOps>>

\* ------------------------------------------- MusicPlayer.play_track
\* `if self.current_track:`
PlayTrackCheck(c) ==
  /\ pc[c] = "P1"
  /\ pc' = [pc EXCEPT ![c] = IF current_track = NoTrack THEN "P4" ELSE "P2"]
  /\ UNCHANGED <<engVars, mpVars, histVars>>
  /\ UNCHANGED <<ret, old, tgt, new, arg, ms, mode, raised, uiOps>>

\* `self.current_track.stop()`: current_track is read again; when another
\* thread has cleared it meanwhile the call raises AttributeError, which
\* play_track does not catch.
PlayTrackStop(c) ==
  /\ pc[c] = "P2"
  /\ raised' = [raised EXCEPT ![c] = (current_track = NoTrack)]
  /\ IF current_track = NoTrack
       THEN /\ pc' = [pc EXCEPT ![c] = EndPc(c)]
            /\ UNCHANGED <<old, ret>>
       ELSE /\ old' = [old EXCEPT ![c] = current_track]
            /\ ret' = [ret EXCEPT ![c] = "P3"]
            /\ pc' = [pc EXCEPT ![c] = "S1"]
  /\ UNCHANGED <<engVars, mpVars, histVars>>
  /\ UNCHANGED <<tgt, new, arg, ms, mode, uiOps>>

\* `self.current_track = None`
PlayTrackClear(c) ==
  /\ pc[c] = "P3"
  /\ current_track' = NoTrack
  /\ pc' = [pc EXCEPT ![c] = "P4"]
  /\ UNCHANGED <<engVars, histVars>>
  /\ UNCHANGED <<current_volume, loop_mode, track_list>>
  /\ UNCHANGED <<ret, old, tgt, new, arg, ms, mode, raised, uiOps>>

\* `track = Track(path)` raises (file missing or unreadable): the except
\* clause reports the failure and play_track returns.
PlayTrackOpenFail(c) ==
  /\ pc[c] = "P4"
  /\ pc' = [pc EXCEPT ![c] = EndPc(c)]
  /\ UNCHANGED <<engVars, mpVars, histVars>>
  /\ UNCHANGED <<ret, old, tgt, new, arg, ms, mode, raised, uiOps>>

\* `track = Track(path)`, `track.set_volume(self.current_volume)`,
\* `track.player.finished_callback = on_finished`,
\* `Thread(target=track.play, daemon=True).start()`.
PlayTrackCreate(c) ==
  /\ pc[c] = "P4"
  /\ alloc < MaxEngines
  /\ LET e == alloc + 1 IN
       /\ alloc' = e
       /\ path' = [path EXCEPT ![e] = tgt[c]]
       /\ volume' = [volume EXCEPT ![e] = VolumeOf(current_volume)]
       /\ fcb' = [fcb EXCEPT ![e] = TRUE]
       /\ plPc' = [plPc EXCEPT ![e] = "create"]
       /\ new' = [new EXCEPT ![c] = e]
       /\ startList' = [startList EXCEPT ![e] = track_list]
       /\ volArg' = [volArg EXCEPT ![e] = {current_volume}]
  /\ pc' = [pc EXCEPT ![c] = "P7"]
  /\ UNCHANGED <<stream, lock, paused, cf, pos, cbPc, cbN>>
  /\ UNCHANGED <<mpVars>>
  /\ UNCHANGED <<eos, notif, stopRet, seekMs, seekCbs, stopSnap, seen>>
  /\ UNCHANGED <<ret, old, tgt, arg, ms, mode, raised, uiOps>>

\* `self.current_track = track`
PlayTrackInstall(c) ==
  /\ pc[c] = "P7"
  /\ current_track' = new[c]
  /\ pc' = [pc EXCEPT ![c] = EndPc(c)]
  /\ UNCHANGED <<engVars, histVars>>
  /\ UNCHANGED <<current_volume, loop_mode, track_list>>
  /\ UNCHANGED <<ret, old, tgt, new, arg, ms, mode, raised, uiOps>>

\* ---------------------------------------- main-thread handlers (caller 0)
UiReady == pc[0] = "idle" /\ uiOps < MaxUiOps

InList(p, l) == \E i \in 1..Len(l) : l[i] = p

\* toggle_play of the row of path p (rows exist for the scanned paths):
\* pause or resume the current track when it is p, else play_track(p).
TogglePlay(p) ==
  /\ UiReady
  /\ InList(p, track_list)
  /\ uiOps' = uiOps + 1
  /\ raised' = [raised EXCEPT ![0] = FALSE]
  /\ IF current_track # NoTrack /\ path[current_track] = p
       THEN /\ paused' = [paused EXCEPT ![current_track] = ~paused[current_track]]
            /\ UNCHANGED <<pc, tgt>>
       ELSE /\ tgt' = [tgt EXCEPT ![0] = p]
            /\ pc' = [pc EXCEPT ![0] = "P1"]
            /\ UNCHANGED paused
  /\ UNCHANGED <<alloc, path, stream, lock, volume, cf, pos, fcb, cbPc, cbN, plPc>>
  /\ UNCHANGED <<mpVars, histVars>>
  /\ UNCHANGED <<ret, old, new, arg, ms, mode>>

\* on_volume_change(value)
VolumeChange(v) ==
  /\ UiReady
  /\ v # current_volume          \* valueChanged is emitted on changes only
  /\ uiOps' = uiOps + 1
  /\ raised' = [raised EXCEPT ![0] = FALSE]
  /\ current_volume' = v
  /\ IF current_track # NoTrack
       THEN /\ old' = [old EXCEPT ![0] = current_track]
            /\ arg' = [arg EXCEPT ![0] = v]
            /\ pc' = [pc EXCEPT ![0] = "V2"]
       ELSE UNCHANGED <<old, arg, pc>>
  /\ UNCHANGED <<engVars, histVars>>
  /\ UNCHANGED <<current_track, loop_mode, track_list>>
  /\ UNCHANGED <<ret, tgt, new, ms, mode>>

\* seek_track(value): nothing happens without a current track
SeekTrack(value) ==
  /\ UiReady
  /\ current_track # NoTrack
  /\ uiOps' = uiOps + 1
  /\ raised' = [raised EXCEPT ![0] = FALSE]
  /\ old' = [old EXCEPT ![0] = current_track]
  /\ arg' = [arg EXCEPT ![0] = SliderFrame(value, path[current_track])]
  /\ ms' = [ms EXCEPT ![0] = NoArg]
  /\ pc' = [pc EXCEPT ![0] = "K2"]
  /\ seekMs' = [seekMs EXCEPT ![current_track] = NoArg]
  /\ UNCHANGED <<engVars, mpVars>>
  /\ UNCHANGED <<eos, notif, stopRet, volArg, seekCbs, stopSnap, seen, startList>>
  /\ UNCHANGED <<ret, tgt, new, mode>>

\* set_loop_mode(m) (pressing the button of the mode in force changes
\* nothing and is left out)
SetLoopMode(m) ==
  /\ UiReady
  /\ m # loop_mode
  /\ uiOps' = uiOps + 1
  /\ loop_mode' = m
  /\ UNCHANGED <<engVars, histVars>>
  /\ UNCHANGED <<current_track, current_volume, track_list>>
  /\ UNCHANGED <<pc, ret, old, tgt, new, arg, ms, mode, raised>>

\* refresh_ui: `self.track_list = self.scan_music()`
RefreshUi(l) ==
  /\ UiReady
  /\ l # track_list
  /\ uiOps' = uiOps + 1
  /\ track_list' = l
  /\ UNCHANGED <<engVars, histVars>>
  /\ UNCHANGED <<current_track, current_volume, loop_mode>>
  /\ UNCHANGED <<pc, ret, old, tgt, new, arg, ms, mode, raised>>

\* Variant of FinishedStart: the "song" branch replays the first scanned
\* path instead of `path`.
FinishedStartFirstPath(c) ==
  /\ c \in Engines
  /\ pc[c] = "idle"
  /\ notif[c] > 0
  /\ IF loop_mode = "song"
       THEN /\ mode' = [mode EXCEPT ![c] = "song"]
            /\ tgt' = [tgt EXCEPT ![c] = IF track_list = <<>> THEN NoPath ELSE track_list[1]]
            /\ pc' = [pc EXCEPT ![c] = "P1"]
       ELSE /\ pc' = [pc EXCEPT ![c] = "F1"]
            /\ tgt' = [tgt EXCEPT ![c] = path[c]]
            /\ UNCHANGED mode
  /\ UNCHANGED <<engVars, mpVars, histVars>>
  /\ UNCHANGED <<ret, old, new, arg, ms, raised, uiOps>>

\* ------------------------- MusicPlayer.on_track_finished (caller c > 0)
\* The thread started by engine c's callback runs on_track_finished(path[c]).
\* `if self.loop_mode == "song": self.play_track(path)`
FinishedStart(c) ==
  /\ c \in Engines
  /\ pc[c] = "idle"
  /\ notif[c] > 0
  /\ tgt' = [tgt EXCEPT ![c] = path[c]]
  /\ IF loop_mode = "song"
       THEN /\ mode' = [mode EXCEPT ![c] = "song"]
            /\ pc' = [pc EXCEPT ![c] = "P1"]
       ELSE /\ pc' = [pc EXCEPT ![c] = "F1"]
            /\ UNCHANGED mode
  /\ UNCHANGED <<engVars, mpVars, histVars>>
  /\ UNCHANGED <<ret, old, new, arg, ms, raised, uiOps>>

\* `elif self.loop_mode == "list":` (loop_mode is read a second time)
FinishedElif(c) ==
  /\ pc[c] = "F1"
  /\ IF loop_mode = "list"
       THEN /\ mode' = [mode EXCEPT ![c] = "list"]
            /\ pc' = [pc EXCEPT ![c] = "R1"]
       ELSE /\ mode' = [mode EXCEPT ![c] = "none"]
            /\ pc' = [pc EXCEPT ![c] = "N1"]
  /\ UNCHANGED <<engVars, mpVars, histVars>>
  /\ UNCHANGED <<ret, old, tgt, new, arg, ms, raised, uiOps>>

\* `idx = self.track_list.index(path)`; ValueError is caught (`pass`)
FinishedIndex(c) ==
  /\ pc[c] = "R1"
  /\ LET i == IndexOf(track_list, tgt[c]) IN
       IF i = 0
         THEN /\ pc' = [pc EXCEPT ![c] = "done"]
              /\ UNCHANGED <<arg, seen>>
         ELSE /\ arg' = [arg EXCEPT ![c] = i - 1]
              /\ seen' = [seen EXCEPT ![c] = <<track_list>>]
              /\ pc' = [pc EXCEPT ![c] = "R2"]
  /\ UNCHANGED <<engVars, mpVars>>
  /\ UNCHANGED <<eos, notif, stopRet, volArg, seekMs, seekCbs, stopSnap, startList>>
  /\ UNCHANGED <<ret, old, tgt, new, ms, mode, raised, uiOps>>

\* Variant of FinishedNextIdx: the next index is not wrapped.
FinishedNextIdxNoWrap(c) ==
  /\ pc[c] = "R2"
  /\ seen' = [seen EXCEPT ![c] = Append(seen[c], track_list)]
  /\ IF Len(track_list) = 0
       THEN /\ pc' = [pc EXCEPT ![c] = "done"]
            /\ raised' = [raised EXCEPT ![c] = TRUE]
            /\ UNCHANGED arg
       ELSE /\ arg' = [arg EXCEPT ![c] = arg[c] + 1]
            /\ pc' = [pc EXCEPT ![c] = "R3"]
            /\ UNCHANGED raised
  /\ UNCHANGED <<engVars, mpVars>>
  /\ UNCHANGED <<eos, notif, stopRet, volArg, seekMs, seekCbs, stopSnap, startList>>
  /\ UNCHANGED <<ret, old, tgt, new, ms, mode, uiOps>>

\* `next_idx = (idx + 1) % len(self.track_list)`; the list is read again,
\* an empty list raises ZeroDivisionError, which is not caught.
FinishedNextIdx(c) ==
  /\ pc[c] = "R2"
  /\ seen' = [seen EXCEPT ![c] = Append(seen[c], track_list)]
  /\ IF Len(track_list) = 0
       THEN /\ pc' = [pc EXCEPT ![c] = "done"]
            /\ raised' = [raised EXCEPT ![c] = TRUE]
            /\ UNCHANGED arg
       ELSE /\ arg' = [arg EXCEPT ![c] = (arg[c] + 1) % Len(track_list)]
            /\ pc' = [pc EXCEPT ![c] = "R3"]
            /\ UNCHANGED raised
  /\ UNCHANGED <<engVars, mpVars>>
  /\ UNCHANGED <<eos, notif, stopRet, volArg, seekMs, seekCbs, stopSnap, startList>>
  /\ UNCHANGED <<ret, old, tgt, new, ms, mode, uiOps>>

\* `self.play_track(self.track_list[next_idx])`; the list is read a third
\* time, an index past its end raises IndexError, which is not caught.
FinishedNext(c) ==
  /\ pc[c] = "R3"
  /\ seen' = [seen EXCEPT ![c] = Append(seen[c], track_list)]
  /\ IF arg[c] >= Len(track_list)
       THEN /\ pc' = [pc EXCEPT ![c] = "done"]
            /\ raised' = [raised EXCEPT ![c] = TRUE]
            /\ UNCHANGED tgt
       ELSE /\ tgt' = [tgt EXCEPT ![c] = track_list[arg[c] + 1]]
            /\ pc' = [pc EXCEPT ![c] = "P1"]
            /\ UNCHANGED raised
  /\ UNCHANGED <<engVars, mpVars>>
  /\ UNCHANGED <<eos, notif, stopRet, volArg, seekMs, seekCbs, stopSnap, startList>>
  /\ UNCHANGED <<ret, old, new, arg, ms, mode, uiOps>>

\* else: `self.current_track = None` (and the display is reset)
FinishedClear(c) ==
  /\ pc[c] = "N1"
  /\ current_track' = NoTrack
  /\ pc' = [pc EXCEPT ![c] = "done"]
  /\ UNCHANGED <<engVars, histVars>>
  /\ UNCHANGED <<current_volume, loop_mode, track_list>>
  /\ UNCHANGED <<ret, old, tgt, new, arg, ms, mode, raised, uiOps>>

\* ------------------------------------------------------ specification
EngineStep ==
  \E e \in Engines :
    \/ CallbackEnter(e)
    \/ CallbackRead(e)
    \/ CallbackReadError(e)
    \/ CallbackFull(e)
    \/ CallbackShort(e)
    \/ PlayCreate(e)
    \/ PlayStart(e)
    \/ PlayFail(e)

ControlStep(c) ==
  \/ StopCheck(c)
  \/ StopStream(c)
  \/ StopClose(c)
  \/ StopRewind(c)
  \/ StopReset(c)
  \/ SetVolume(c)
  \/ SeekReader(c)
  \/ SeekCursor(c)

PlayTrackStep(c) ==
  \/ PlayTrackCheck(c)
  \/ PlayTrackStop(c)
  \/ PlayTrackClear(c)
  \/ PlayTrackOpenFail(c)
  \/ PlayTrackCreate(c)
  \/ PlayTrackInstall(c)

UiStep ==
  \/ \E p \in Paths : TogglePlay(p)
  \/ \E v \in SliderVolumes : VolumeChange(v)
  \/ \E value \in SliderSeeks : SeekTrack(value)
  \/ \E m \in LoopModes : SetLoopMode(m)
  \/ \E l \in ScanResults : RefreshUi(l)

FinishedStep ==
  \E c \in Engines :
    \/ FinishedStart(c)
    \/ FinishedElif(c)
    \/ FinishedIndex(c)
    \/ FinishedNextIdx(c)
    \/ FinishedNext(c)
    \/ FinishedClear(c)

Next ==
  \/ EngineStep
  \/ \E c \in Callers : ControlStep(c)
  \/ \E c \in Callers : PlayTrackStep(c)
  \/ UiStep
  \/ FinishedStep

Spec == Init /\ [][Next]_vars

\* --------------------------------------------------------------------
\* SpecEngine: one TrackPlayer driven directly by a single client thread
\* (caller 0) through its public methods, with arguments from VolumeArgs
\* and SeekMsArgs; the audio thread runs the callback concurrently.
TheEngine == 1

InitEngine ==
  /\ alloc = 1
  /\ \E p \in Paths : path = [e \in Engines |-> IF e = TheEngine THEN p ELSE NoPath]
  /\ EngineInit
  /\ current_track = NoTrack
  /\ current_volume = InitialVolume
  /\ loop_mode = "none"
  /\ track_list = <<>>
  /\ CallInit
  /\ HistInit

ClientReady == pc[0] = "idle" /\ uiOps < MaxClientOps

EngineFields(e) == <<stream[e], cf[e], pos[e], volume[e], paused[e]>>

\* play(), called while no stream is attached; the client waits for it.
ClientPlay ==
  /\ ClientReady
  /\ stream[TheEngine] = "none"
  /\ plPc[TheEngine] \in {"idle", "failed"}
  /\ uiOps' = uiOps + 1
  /\ plPc' = [plPc EXCEPT ![TheEngine] = "create"]
  /\ pc' = [pc EXCEPT ![0] = "J"]
  /\ stopSnap' = NoSnap
  /\ UNCHANGED <<alloc, path, stream, lock, volume, paused, cf, pos, fcb, cbPc, cbN>>
  /\ UNCHANGED <<mpVars>>
  /\ UNCHANGED <<eos, notif, stopRet, volArg, seekMs, seekCbs, seen, startList>>
  /\ UNCHANGED <<ret, old, tgt, new, arg, ms, mode, raised>>

\* play() has returned, or has ended by the exception of the stream's
\* creation or start: plPc then stays "failed" until the next play().
ClientPlayReturn ==
  /\ pc[0] = "J"
  /\ plPc[TheEngine] \in {"done", "failed"}
  /\ plPc' = [plPc EXCEPT ![TheEngine] =
                IF plPc[TheEngine] = "failed" THEN "failed" ELSE "idle"]
  /\ pc' = [pc EXCEPT ![0] = "idle"]
  /\ UNCHANGED <<alloc, path, stream, lock, volume, paused, cf, pos, fcb, cbPc, cbN>>
  /\ UNCHANGED <<mpVars, histVars>>
  /\ UNCHANGED <<ret, old, tgt, new, arg, ms, mode, raised, uiOps>>

\* stop(); the engine's fields at the call are recorded in stopSnap
ClientStop ==
  /\ ClientReady
  /\ uiOps' = uiOps + 1
  /\ old' = [old EXCEPT ![0] = TheEngine]
  /\ ret' = [ret EXCEPT ![0] = "idle"]
  /\ pc' = [pc EXCEPT ![0] = "S1"]
  /\ raised' = [raised EXCEPT ![0] = FALSE]
  /\ stopSnap' = EngineFields(TheEngine)
  /\ UNCHANGED <<engVars, mpVars>>
  /\ UNCHANGED <<eos, notif, stopRet, volArg, seekMs, seekCbs, seen, startList>>
  /\ UNCHANGED <<tgt, new, arg, ms, mode>>

\* pause()
ClientPause ==
  /\ ClientReady
  /\ ~paused[TheEngine]
  /\ uiOps' = uiOps + 1
  /\ paused' = [paused EXCEPT ![TheEngine] = TRUE]
  /\ stopSnap' = NoSnap
  /\ UNCHANGED <<alloc, path, stream, lock, volume, cf, pos, fcb, cbPc, cbN, plPc>>
  /\ UNCHANGED <<mpVars>>
  /\ UNCHANGED <<eos, notif, stopRet, volArg, seekMs, seekCbs, seen, startList>>
  /\ UNCHANGED <<pc, ret, old, tgt, new, arg, ms, mode, raised>>

\* resume()
ClientResume ==
  /\ ClientReady
  /\ paused[TheEngine]
  /\ uiOps' = uiOps + 1
  /\ paused' = [paused EXCEPT ![TheEngine] = FALSE]
  /\ stopSnap' = NoSnap
  /\ UNCHANGED <<alloc, path, stream, lock, volume, cf, pos, fcb, cbPc, cbN, plPc>>
  /\ UNCHANGED <<mpVars>>
  /\ UNCHANGED <<eos, notif, stopRet, volArg, seekMs, seekCbs, seen, startList>>
  /\ UNCHANGED <<pc, ret, old, tgt, new, arg, ms, mode, raised>>

\* set_volume(v)
ClientSetVolume(v) ==
  /\ ClientReady
  /\ uiOps' = uiOps + 1
  /\ old' = [old EXCEPT ![0] = TheEngine]
  /\ arg' = [arg EXCEPT ![0] = v]
  /\ pc' = [pc EXCEPT ![0] = "V2"]
  /\ stopSnap' = NoSnap
  /\ UNCHANGED <<engVars, mpVars>>
  /\ UNCHANGED <<eos, notif, stopRet, volArg, seekMs, seekCbs, seen, startList>>
  /\ raised' = [raised EXCEPT ![0] = FALSE]
  /\ UNCHANGED <<ret, tgt, new, ms, mode>>

\* seek(seconds), seconds = t ms:
\* `frame = int(seconds * self.samplerate)`, `np.clip(frame, 0, len(self.sf))`
ClientSeek(t) ==
  /\ ClientReady
  /\ uiOps' = uiOps + 1
  /\ old' = [old EXCEPT ![0] = TheEngine]
  /\ arg' = [arg EXCEPT ![0] = SeekFrame(t, path[TheEngine])]
  /\ ms' = [ms EXCEPT ![0] = {t}]
  /\ pc' = [pc EXCEPT ![0] = "K2"]
  /\ stopSnap' = NoSnap
  /\ seekMs' = [seekMs EXCEPT ![TheEngine] = NoArg]
  /\ UNCHANGED <<engVars, mpVars>>
  /\ UNCHANGED <<eos, notif, stopRet, volArg, seekCbs, seen, startList>>
  /\ raised' = [raised EXCEPT ![0] = FALSE]
  /\ UNCHANGED <<ret, tgt, new, mode>>

ClientStep ==
  \/ ClientPlay
  \/ ClientPlayReturn
  \/ ClientStop
  \/ ClientPause
  \/ ClientResume
  \/ \E v \in VolumeArgs : ClientSetVolume(v)
  \/ \E t \in SeekMsArgs : ClientSeek(t)

NextEngine ==
  \/ EngineStep
  \/ ControlStep(0)
  \/ ClientStep

SpecEngine == InitEngine /\ [][NextEngine]_vars

\* ====================================================================
\* Properties
\* ====================================================================
Started(e) == stream[e] = "started"
ListABC == <<"A", "B", "C">>
ListAC == <<"A", "C">>
Clamp(v, lo, hi) == IF v < lo THEN lo ELSE IF v > hi THEN hi ELSE v

\* C1: at most one TrackPlayer has a started output stream at any time:
\* play_track stops the previous track before the new stream is started.
C1_AtMostOneStarted ==
  Cardinality({e \in Engines : Started(e)}) <= 1

\* C2: once stop() has returned for an engine, no callback invocation of
\* that engine is running or runs again.
C2_NoCallbackAfterStop ==
  \A e \in Engines : stopRet[e] => (cbPc[e] = "idle" /\ ~Started(e))

\* C3: every short read of an engine's callback schedules exactly one
\* completion notification (the counts always agree), the callback step
\* that detects it only schedules the handler (it changes no MusicPlayer
\* state and moves no handler), and a handler runs only once scheduled.
C3_OneNotificationPerEos ==
  /\ [](\A e \in Engines : notif[e] = eos[e] /\ (pc[e] # "idle" => notif[e] > 0))
  /\ [][\A e \in Engines :
          eos'[e] # eos[e] =>
            /\ eos'[e] = eos[e] + 1
            /\ notif'[e] = notif[e] + 1
            /\ UNCHANGED <<mpVars, pc>>]_vars

C3_Witness ==
  \E e \in Engines : eos[e] = 1 /\ notif[e] = 1 /\ pc[e] = "done" /\ stream[e] = "stopped"

\* C4: while an engine is paused (pause() has returned, resume() has not
\* been called), no step of its callback changes current_frame or the
\* reader position.
C4_PausedFreezesCursor ==
  [][\A e \in Engines :
       (paused[e] /\ cbPc'[e] # cbPc[e]) => (cf'[e] = cf[e] /\ pos'[e] = pos[e])]_vars

\* C5: after set_volume(v) returns, for any integer v, the engine's volume
\* is clamp(v, 0, 100) / 100, and the volume is always within [0.0, 1.0].
C5_VolumeClamped ==
  \A e \in Engines :
    /\ volume[e] >= 0 /\ volume[e] <= 100
    /\ \A v \in volArg[e] : volume[e] = Clamp(v, 0, 100)

C5_Witness ==
  /\ volArg[TheEngine] = {130}
  /\ volume[TheEngine] = 100
  /\ Started(TheEngine)
  /\ pc[0] = "idle"

\* C6: after seek(seconds) returns and with at most one callback read
\* since, and no stop: for seconds in [0, duration] the position is within
\* one block (BlockSize / samplerate) of seconds; for seconds > duration
\* the cursor is total_frames; for seconds < 0 the seek put it at 0; and
\* seek does not raise.
C6_SeekWithinOneBlock ==
  \A e \in Engines :
    \A t \in seekMs[e] : seekCbs[e] <= 1 =>
      LET sr == SampleRateOf(path[e])
          n == LenOf(path[e])
      IN /\ ~raised[0]
         /\ (t >= 0 /\ t * sr <= n * 1000) =>
               Abs(cf[e] * 1000 - t * sr) <= BlockSize * 1000
         /\ (t * sr > n * 1000) => cf[e] = n
         /\ (t < 0 /\ seekCbs[e] = 0) => (cf[e] = 0 /\ pos[e] = 0)

C6_Witness ==
  /\ seekMs[TheEngine] = {30}
  /\ seekCbs[TheEngine] = 1
  /\ cbPc[TheEngine] = "idle"
  /\ cf[TheEngine] = SeekFrame(30, path[TheEngine]) + BlockSize

\* C7: when stop() returns it has raised nothing and the engine has no
\* stream, current_frame 0, reader position 0 and its volume and paused
\* flag as before; called on an engine already in that state (stopped
\* before, or never started) it leaves every field as it was.
C7_StopIdempotent ==
  (pc[0] = "idle" /\ stopSnap # NoSnap) =>
    /\ ~raised[0]
    /\ EngineFields(TheEngine) = <<"none", 0, 0, stopSnap[4], stopSnap[5]>>
    /\ (stopSnap[1] = "none" /\ stopSnap[2] = 0 /\ stopSnap[3] = 0) =>
          EngineFields(TheEngine) = stopSnap

C7_Witness ==
  /\ pc[0] = "idle"
  /\ stopSnap # NoSnap
  /\ stopSnap[1] = "none"
  /\ eos[TheEngine] = 1
  /\ EngineFields(TheEngine) = stopSnap

\* The handler of engine c's completion has read track_list three times
\* and every read returned l.
HandledAgainst(c, l) == seen[c] = <<l, l, l>>

C9_ListAdvancesToNext ==
  [][\A c \in Engines :
       /\ (pc[c] = "R1" /\ pc'[c] # "R1" /\ ~InList(path[c], track_list)) =>
             (pc'[c] = "done" /\ UNCHANGED <<engVars, mpVars>>)
       /\ (pc[c] = "R3" /\ pc'[c] # "R3" /\ InList(path[c], track_list)) =>
             /\ pc'[c] = "P1"
             /\ tgt'[c] = track_list[(IndexOf(track_list, path[c]) % Len(track_list)) + 1]]_vars

\* C10 as stated: playlist [A,B,C] when C was started, rescanned to [A,C]
\* while C plays; the completion of C (handled against [A,C]) is a no-op,
\* the handler calls play_track for no path.
C10_RescanCompletionNoOp ==
  \A c \in Engines :
    (path[c] = "C" /\ startList[c] = ListABC /\ mode[c] = "list"
       /\ HandledAgainst(c, ListAC)) =>
      (pc[c] = "done" /\ tgt[c] = "C" /\ new[c] = NoTrack)

\* C10 amended: in that situation C is found at index 1 of [A,C], the next
\* index wraps to 0 and the handler calls play_track("A"); an engine the
\* call constructs is an engine for A.
C10_RescanCompletionPlaysA ==
  \A c \in Engines :
    (path[c] = "C" /\ startList[c] = ListABC /\ mode[c] = "list"
       /\ HandledAgainst(c, ListAC)) =>
      /\ tgt[c] = "A"
      /\ pc[c] \in {"P1", "P2", "S1", "S2", "S3", "S4", "S5", "P3", "P4", "P7", "done"}
      /\ new[c] # NoTrack => path[new[c]] = "A"

C10_Witness ==
  \E c \in Engines :
    /\ path[c] = "C" /\ startList[c] = ListABC /\ mode[c] = "list"
    /\ HandledAgainst(c, ListAC)
    /\ pc[c] = "done"
    /\ new[c] # NoTrack
    /\ current_track = new[c]
    /\ path[current_track] = "A"
    /\ Started(current_track)

\* C11: when a completion handler has run the "none" branch, no track is
\* current and no engine has a started stream.
C11_NoneEndsPlayback ==
  [][\A c \in Engines :
       (pc[c] = "N1" /\ pc'[c] = "done") =>
         (current_track' = NoTrack /\ \A e \in Engines : stream'[e] # "started")]_vars

\* C12: a step that changes loop_mode changes no engine field and not the
\* current track, and whenever a completion handler decides its branch,
\* the branch is the loop mode in force at that decision.
C12_LoopModeOnlyAffectsNextDecision ==
  [][/\ loop_mode' # loop_mode => UNCHANGED <<engVars, current_track, current_volume>>
     /\ \A c \in Engines : mode'[c] # mode[c] => mode'[c] = loop_mode]_vars

\* C13: between a callback invocation's source read and its write of the
\* scaled block (it holds the lock), the engine's volume does not change:
\* the block is scaled by the value before or the value after a
\* concurrent set_volume.
C13_VolumeStableWithinBlock ==
  [][\A e \in Engines : cbPc[e] = "read" => volume'[e] = volume[e]]_vars

C13_Witness ==
  /\ cbPc[TheEngine] = "read"
  /\ pc[0] = "V2"
  /\ old[0] = TheEngine
  /\ VolumeOf(arg[0]) # volume[TheEngine]

\* C14: once the attempt to play a track has failed in its play thread
\* (the output stream cannot be opened or started) and play_track has
\* returned, that track is not the current track.
C14_FailedPlayLeavesNoTrack ==
  \A e \in Engines :
    (plPc[e] = "failed" /\ ~(\E c \in Callers : pc[c] = "P7" /\ new[c] = e)) =>
      current_track # e

\* C15: when a callback invocation that read from the reader completes
\* (full block or end-of-stream), current_frame equals the reader position.
C15_CursorFollowsReader ==
  [][\A e \in Engines :
       (cbPc[e] = "read" /\ cbPc'[e] = "idle") => cf'[e] = pos'[e]]_vars

\* C16: an engine that has finished (end-of-stream seen and its completion
\* notification handled) or that stop() has returned for holds no output
\* stream; after stop() current_frame is additionally 0.
C16_StoppedOrFinishedReleasesStream ==
  \A e \in Engines :
    /\ (eos[e] > 0 /\ pc[e] = "done") => stream[e] = "none"
    /\ stopRet[e] => (stream[e] = "none" /\ cf[e] = 0)

\* C17: every step that writes current_frame or repositions the reader is
\* taken by a holder of the engine lock (the lock is held before or after
\* the step).
C17_CursorWritesHoldLock ==
  [][\A e \in Engines :
       (cf'[e] # cf[e] \/ pos'[e] # pos[e]) =>
         (lock[e] # "free" \/ lock'[e] # "free")]_vars

\* C18: a callback invocation that ends at the read (the read raised)
\* schedules the completion notification and leaves the stream stopped,
\* as at end-of-stream.
C18_ReadErrorActsAsEos ==
  [][\A e \in Engines :
       (cbPc[e] = "checked" /\ cbPc'[e] = "idle") =>
         (notif'[e] = notif[e] + 1 /\ stream'[e] = "stopped")]_vars

\* C19: every engine whose stream is started is the engine of
\* current_track (or is the one play_track is about to install).
C19_StartedIsCurrent ==
  \A e \in Engines :
    Started(e) =>
      (current_track = e \/ \E c \in Callers : pc[c] = "P7" /\ new[c] = e)

\* C20: outside a running on_volume_change, the current track's engine
\* volume is the stored volume clamped to 0..100.
C20_CurrentVolumeApplied ==
  (current_track # NoTrack /\ pc[0] # "V2") =>
    volume[current_track] = VolumeOf(current_volume)
====
